---- MODULE Spec2Model ----
(***************************************************************************)
(* Momentum habit tracker (src/src/App.jsx): the streak engine             *)
(* (calculateStreaks, getDateKey, getDaysDifference), the statistics       *)
(* functions (getHabitStats, getMonthlyData, getYearlyData), the           *)
(* dashboard's filter of the day's habits, and the HabitTracker            *)
(* component's state with its handlers (signUp, signIn, signOut,           *)
(* toggleTheme, addHabit, updateHabit, deleteHabit, toggleHabitCompletion, *)
(* setMood, setReflection).                                                *)
(*                                                                         *)
(* A JavaScript Date is modelled by the local calendar day it falls on,    *)
(* numbered in days since 1970-01-01.  A date-key "YYYY-MM-DD" is the      *)
(* triple <<year, month, day>>; the zero padding of the key makes the      *)
(* string order of keys the lexicographic order of the triples.  Instants  *)
(* are counted in hours since the epoch instead of milliseconds: every     *)
(* instant the code subtracts is a local midnight, a whole number of       *)
(* hours, so the quotient by one day is the same.                          *)
(***************************************************************************)
EXTENDS Integers, Sequences, FiniteSets, TLC

VARIABLES
    timeZone,          \* the host's time zone (read by Date's local-time methods)
    argFrequency,      \* calculateStreaks call: habit.frequency
    argCompletions,    \* calculateStreaks call: completions
    argReferenceDate,  \* calculateStreaks call: referenceDate (None: omitted)
    now,               \* calculateStreaks call: the day new Date() falls on
    result,            \* calculateStreaks call: the returned record (None before it returns)
    examined,          \* calculateStreaks call: keys the backward scan looked up
    appData,           \* useState appData: [users, currentUser, theme]
    currentUser,       \* useState currentUser: a user record or None
    theme,             \* useState theme
    selectedDate,      \* useState selectedDate
    nextId,            \* number of ids generateId has handed out
    opCount,           \* history: number of handler calls so far
    opLimit,           \* the number of handler calls the run stops after
    lastOp,            \* history: the last handler call and what it saw
    argHabit,          \* statistics call: the habit record passed in (None: no call)
    argDate,           \* statistics call: the date passed in
    argMonth,          \* statistics call: month (0..11)
    argYear,           \* statistics call: year
    returned,          \* statistics call: the function called and what it returned
    localStorage,      \* the text stored under 'habitTracker_v2' (None: no item)
    pendingAuth,       \* a submitted sign-up or sign-in that has not run yet (None: none)
    selectedHabitForAnalytics,  \* useState selectedHabitForAnalytics: a habit record or None
    edited             \* history: ids of the habits the edit form was saved on

fnVars  == <<argFrequency, argCompletions, argReferenceDate, now, result, examined>>
appVars == <<appData, currentUser, theme, selectedDate, nextId, opCount, opLimit, lastOp>>
statVars == <<argHabit, argDate, argMonth, argYear, returned>>
sessionVars == <<localStorage, pendingAuth, selectedHabitForAnalytics, edited>>
vars    == <<timeZone, fnVars, appVars, statVars, sessionVars>>

\* null / undefined / an omitted argument is the empty tuple, a present value v is <<v>>
None    == <<>>
Some(v) == <<v>>
Val(o)  == o[1]

----------------------------------------------------------------------------
(* Bounds of the model. *)

\* days in the window the enumerated completion maps and reference dates span
NumDays == 9
\* length of the longest enumerated run of consecutive completed days
MaxLongRun == 368
\* handler calls in one run of the application driven through its views
MaxOps == 6
\* handler calls in one run where the handlers get any arguments
MaxHandlerOps == 5
\* ids generateId hands out in one run (users and habits)
MaxIds == 3
NumStatsDays == 4
MaxAccountOps == 5
MaxDayOps == 6
MaxDaysPassed == 1
MaxSessionOps == 5

(* Program constants. *)

\* src/src/App.jsx:227  if (currentStreak > 365) break;
StreakCap == 365
\* src/src/App.jsx:235  habit.frequency === 'weekly' && diff <= 7
WeeklyGap == 7

Max(a, b) == IF a >= b THEN a ELSE b

----------------------------------------------------------------------------
(* The calendar behind Date: day number <-> (year, month, day). *)

\* Date parsing from year/month/day (proleptic Gregorian calendar)
DaysFromCivil(y, m, d) ==
    LET yy  == IF m <= 2 THEN y - 1 ELSE y
        era == yy \div 400
        yoe == yy - era * 400
        mp  == IF m > 2 THEN m - 3 ELSE m + 9
        doy == (153 * mp + 2) \div 5 + d - 1
        doe == yoe * 365 + yoe \div 4 - yoe \div 100 + doy
    IN  era * 146097 + doe - 719468

\* getFullYear / getMonth + 1 / getDate of a day number
CivilFromDays(z) ==
    LET zz  == z + 719468
        era == zz \div 146097
        doe == zz - era * 146097
        yoe == (doe - doe \div 1460 + doe \div 36524 - doe \div 146096) \div 365
        doy == doe - (365 * yoe + yoe \div 4 - yoe \div 100)
        mp  == (5 * doy + 2) \div 153
        d   == doy - (153 * mp + 2) \div 5 + 1
        m   == IF mp < 10 THEN mp + 3 ELSE mp - 9
        y   == yoe + era * 400 + (IF m <= 2 THEN 1 ELSE 0)
    IN  <<y, m, d>>

\* Date.prototype.getDay: 0 = Sunday .. 6 = Saturday (1970-01-01 was a Thursday)
getDay(z) == (z + 4) % 7

\* const getDateKey = (date) => `${y}-${mm}-${dd}` in local time
getDateKey(date) == CivilFromDays(date)

\* the order of String.prototype.localeCompare-free Array.prototype.sort on keys
KeyLess(a, b) ==
    \/ a[1] < b[1]
    \/ a[1] = b[1] /\ a[2] < b[2]
    \/ a[1] = b[1] /\ a[2] = b[2] /\ a[3] < b[3]

----------------------------------------------------------------------------
(* The host time zone.  Two hosts are modelled: one without daylight       *)
(* saving time and one with the United States rules (clocks go forward at  *)
(* 02:00 on the second Sunday of March and back at 02:00 on the first      *)
(* Sunday of November).                                                    *)

TimeZones == {"UTC", "America/Los_Angeles"}

FirstSundayOnOrAfter(z) == z + ((7 - getDay(z)) % 7)
SpringForwardDay(y) == FirstSundayOnOrAfter(DaysFromCivil(y, 3, 8))
FallBackDay(y)      == FirstSundayOnOrAfter(DaysFromCivil(y, 11, 1))

\* hours to add to UTC to get local time at the local midnight starting day z
OffsetAtLocalMidnight(zone, z) ==
    IF zone = "UTC" THEN 0
    ELSE LET y == CivilFromDays(z)[1]
         IN  IF SpringForwardDay(y) < z /\ z <= FallBackDay(y) THEN -7 ELSE -8

\* new Date("YYYY-MM-DD") is UTC midnight of that day; the local day it falls on
LocalDayOfUtcMidnight(zone, z) == IF zone = "UTC" THEN z ELSE z - 1

\* d.setHours(0, 0, 0, 0): the instant (hours since the epoch) of local midnight
LocalMidnight(zone, z) == 24 * z - OffsetAtLocalMidnight(zone, z)

\* new Date(key) followed by setHours(0, 0, 0, 0)
ParsedKeyMidnight(zone, key) ==
    LocalMidnight(zone,
        LocalDayOfUtcMidnight(zone, DaysFromCivil(key[1], key[2], key[3])))

\* getDaysDifference(date1, date2) on two date-keys:
\* Math.floor((d1 - d2) / (1000 * 60 * 60 * 24))
getDaysDifference(zone, key1, key2) ==
    (ParsedKeyMidnight(zone, key1) - ParsedKeyMidnight(zone, key2)) \div 24

----------------------------------------------------------------------------
(* calculateStreaks (App.jsx 211-245). *)

Frequencies == {"daily", "weekly"}

MinOf(S) == CHOOSE m \in S : \A o \in S : m <= o
MaxOf(S) == CHOOSE m \in S : \A o \in S : o <= m

\* Object.keys(completions).sort(): each key lands at the position given by the
\* number of keys that sort before it
SortKeys(S) ==
    LET ranked == {<<Cardinality({o \in S : KeyLess(o, k)}) + 1, k>> : k \in S}
    IN  [i \in 1..Cardinality(S) |-> (CHOOSE p \in ranked : p[1] = i)[2]]

\* Array.prototype.reverse
Reverse(s) == [i \in 1..Len(s) |-> s[Len(s) + 1 - i]]

\* while (true) { ... } of lines 219-228, the backward scan from firstDate,
\* breaking once currentStreak exceeds cap.  Iteration i (from 0) looks up the
\* key of firstDate - i: a missing key breaks at line 224 with currentStreak = i,
\* and a present one makes currentStreak i + 1 and breaks at line 227 once that
\* exceeds cap.  The loop is given by its exit iteration (a recursive definition
\* 366 deep exhausts the stack of the model checker).  Returns the streak and
\* the number of keys looked up.
ScanLoop(completions, firstDate, cap) ==
    LET Missing(i) == getDateKey(firstDate - i) \notin completions
        n == CHOOSE i \in 0..(cap + 1) :
                 /\ i = cap + 1 \/ Missing(i)
                 /\ \A j \in 0..(i - 1) : ~Missing(j)
    IN  [currentStreak |-> n,
         examined      |-> IF n = cap + 1 THEN n ELSE n + 1]

\* a faulty variant: the scan without line 227: it runs until a key is missing
ScanBackNoCap(completions, checkDate) ==
    ScanLoop(completions, checkDate, Cardinality(completions))

\* a faulty variant: the scan with the step of line 226 taken before the first lookup
ScanBackFromYesterday(completions, checkDate) ==
    ScanLoop(completions, checkDate - 1, StreakCap)

\* lines 218-228 with checkDate = new Date(referenceDate || new Date())
ScanBack(completions, checkDate) ==
    ScanLoop(completions, checkDate, StreakCap)

\* the loops of lines 231-242.  linked[j] is the test of line 235 on
\* sortedDates[j - 1], sortedDates[j]; the inner loop started at i stops at the
\* first j > i that is not linked (or past the end) with tempStreak = j - i.
LongestRun(zone, frequency, sortedDates) ==
    LET n      == Len(sortedDates)
        linked == [j \in 2..n |->
                     LET diff == getDaysDifference(zone, sortedDates[j],
                                                   sortedDates[j - 1])
                     IN  diff = 1 \/ (frequency = "weekly" /\ diff <= WeeklyGap)]
        stops  == {j \in 2..n : ~linked[j]} \cup {n + 1}
        tempStreak(i) == MinOf({j \in stops : j > i}) - i
    IN  MaxOf({0} \cup {tempStreak(i) : i \in 1..n})

\* a faulty variant: the early return reporting a longest streak of one
EmptyStreaksOne == [currentStreak |-> 0, longestStreak |-> 1]

\* line 213: return { currentStreak: 0, longestStreak: 0 }
EmptyStreaks == [currentStreak |-> 0, longestStreak |-> 0]

\* a faulty variant: line 244 returning longestStreak without Math.max(.., currentStreak)
calculateStreaksNoMax(zone, today, frequency, completions, referenceDate) ==
    LET dates == Reverse(SortKeys(completions))
    IN  IF Len(dates) = 0
        THEN [streaks |-> EmptyStreaks, examined |-> 0]
        ELSE LET checkDate   == IF referenceDate = None THEN today ELSE Val(referenceDate)
                 scan        == ScanBack(completions, checkDate)
                 sortedDates == SortKeys(completions)
                 longest     == LongestRun(zone, frequency, sortedDates)
             IN  [streaks  |-> [currentStreak |-> scan.currentStreak,
                                longestStreak |-> longest],
                  examined |-> scan.examined]

\* calculateStreaks with the scan's lookup count alongside the returned record
calculateStreaksTraced(zone, today, frequency, completions, referenceDate) ==
    LET dates == Reverse(SortKeys(completions))
    IN  IF Len(dates) = 0
        THEN [streaks |-> EmptyStreaks, examined |-> 0]
        ELSE LET checkDate   == IF referenceDate = None THEN today ELSE Val(referenceDate)
                 scan        == ScanBack(completions, checkDate)
                 sortedDates == SortKeys(completions)
                 longest     == LongestRun(zone, frequency, sortedDates)
             IN  [streaks  |-> [currentStreak |-> scan.currentStreak,
                                longestStreak |-> Max(longest, scan.currentStreak)],
                  examined |-> scan.examined]

calculateStreaks(zone, today, frequency, completions, referenceDate) ==
    calculateStreaksTraced(zone, today, frequency, completions, referenceDate).streaks

----------------------------------------------------------------------------
(* calculateStreaks called on enumerated arguments. *)

WindowStart == DaysFromCivil(2024, 3, 9)
WindowDays  == WindowStart .. (WindowStart + NumDays - 1)
WindowEnd   == WindowStart + NumDays - 1
WindowKeys  == {getDateKey(z) : z \in WindowDays}

\* the keys of n consecutive days ending on day z
RunEnding(z, n) == {getDateKey(d) : d \in (z - n + 1) .. z}
LongRuns == {RunEnding(WindowEnd, n) : n \in {StreakCap, StreakCap + 1, MaxLongRun}}

\* every completion map within the window with every reference date of the
\* window (or none), and the long runs with the day they end on as reference
\* date; `now` is read only when referenceDate is omitted
FnInit ==
    /\ timeZone \in TimeZones
    /\ argFrequency \in Frequencies
    /\ \/ /\ argCompletions \in SUBSET WindowKeys
          /\ argReferenceDate \in {None} \cup {Some(z) : z \in WindowDays}
       \/ /\ argCompletions \in LongRuns
          /\ argReferenceDate = Some(WindowEnd)
    /\ now \in IF argReferenceDate = None THEN WindowDays ELSE {WindowEnd}
    /\ result = None
    /\ examined = 0
    /\ appData = [users |-> <<>>, currentUser |-> None, theme |-> "dark"]
    /\ currentUser = None
    /\ theme = "dark"
    /\ selectedDate = WindowEnd
    /\ nextId = 0
    /\ opCount = 0
    /\ opLimit = 0
    /\ lastOp = [op |-> "init"]
    /\ argHabit = None
    /\ argDate = WindowEnd
    /\ argMonth = 0
    /\ argYear = 2024
    /\ returned = None
    /\ localStorage = None
    /\ pendingAuth = None
    /\ selectedHabitForAnalytics = None
    /\ edited = {}

CallCalculateStreaks ==
    /\ result = None
    /\ LET r == calculateStreaksTraced(timeZone, now, argFrequency,
                                       argCompletions, argReferenceDate)
       IN  /\ result' = Some(r.streaks)
           /\ examined' = r.examined
    /\ UNCHANGED <<timeZone, argFrequency, argCompletions, argReferenceDate, now,
                   appVars, statVars, sessionVars>>

FnNext == CallCalculateStreaks

SpecFn == FnInit /\ [][FnNext]_vars

----------------------------------------------------------------------------
(* The HabitTracker component (App.jsx 77-329) and the views that call it. *)

\* the day the application is opened on, and the days the calendar view is
\* used to select: Sunday to Tuesday, over the start of daylight saving time
AppToday == DaysFromCivil(2024, 3, 10)
AppDays  == AppToday .. DaysFromCivil(2024, 3, 12)

Emails    == {"ann@example.org"}
Passwords == {"pw1"}
\* the weekday sets the habit form is filled in with
WeekdayChoices == {{}, {1, 3, 5}}

\* hashPassword: SHA-256 in hex, taken to be collision free
hashPassword(password) == <<"sha256", password>>

\* Array.prototype.find: the first of the matching positions as <<x>>,
\* undefined as <<>>
FirstAt(seq, hits) == IF hits = {} THEN None ELSE Some(seq[MinOf(hits)])

\* a faulty variant: line 141 without the password test
FindUserByEmail(users, email, hashedPassword) ==
    FirstAt(users, {i \in 1..Len(users) : users[i].email = email})

\* users.find(u => u.email === email && u.password === hashedPassword), line 141
FindUser(users, email, hashedPassword) ==
    FirstAt(users, {i \in 1..Len(users) : /\ users[i].email = email
                                          /\ users[i].password = hashedPassword})

\* habits.find(h => h.id === habitId), line 197
FindHabit(habits, habitId) ==
    FirstAt(habits, {i \in 1..Len(habits) : habits[i].id = habitId})

Range(seq) == {seq[i] : i \in 1..Len(seq)}

\* JSON.stringify(data) (line 65).  The text is modelled by the JSON document it
\* spells: null is <<"null">>, a string is <<"string", s>>, and a habit's
\* completions object is the function from its keys to true.
HabitText(h) ==
    [f \in DOMAIN h |->
        IF f = "completions" THEN [k \in h.completions |-> TRUE] ELSE h[f]]

UserText(u) ==
    [u EXCEPT !.habits = [i \in 1..Len(u.habits) |-> HabitText(u.habits[i])]]

JSONstringify(data) ==
    [users       |-> [i \in 1..Len(data.users) |-> UserText(data.users[i])],
     currentUser |-> IF data.currentUser = None
                     THEN <<"null">> ELSE <<"string", Val(data.currentUser)>>,
     theme       |-> data.theme]

\* JSON.parse(stored) (line 56)
HabitOfText(t) ==
    [f \in DOMAIN t |-> IF f = "completions" THEN DOMAIN t.completions ELSE t[f]]

UserOfText(t) ==
    [t EXCEPT !.habits = [i \in 1..Len(t.habits) |-> HabitOfText(t.habits[i])]]

JSONparse(text) ==
    [users       |-> [i \in 1..Len(text.users) |-> UserOfText(text.users[i])],
     currentUser |-> IF text.currentUser[1] = "null"
                     THEN None ELSE Some(text.currentUser[2]),
     theme       |-> text.theme]

\* the effect of lines 109-113: the render after appData changed saves it
SaveEffect == localStorage' = Some(JSONstringify(appData'))

\* what follows a handler that leaves the auth form, the analytics selection and
\* the edit history alone
AfterHandler ==
    /\ SaveEffect
    /\ UNCHANGED <<pendingAuth, selectedHabitForAnalytics, edited>>

\* the state after storage.loadData() found nothing stored (line 60)
AppStart ==
    /\ timeZone \in TimeZones
    /\ now = AppToday
    /\ selectedDate = now
    /\ appData = [users |-> <<>>, currentUser |-> None, theme |-> "dark"]
    /\ currentUser = None
    /\ theme = "dark"
    /\ nextId = 0
    /\ opCount = 0
    /\ lastOp = [op |-> "init"]
    /\ argFrequency = "daily"
    /\ argCompletions = {}
    /\ argReferenceDate = None
    /\ result = None
    /\ examined = 0
    /\ argHabit = None
    /\ argDate = AppToday
    /\ argMonth = 0
    /\ argYear = 2024
    /\ returned = None
    /\ localStorage = Some(JSONstringify(appData))
    /\ pendingAuth = None
    /\ selectedHabitForAnalytics = None
    /\ edited = {}

AppInit == AppStart /\ opLimit = MaxOps

\* every handler call is counted and recorded
CanCall == opCount < opLimit

Called(op) ==
    /\ opCount' = opCount + 1
    /\ lastOp' = op
    /\ UNCHANGED opLimit

Frame == UNCHANGED <<timeZone, fnVars, statVars>>

\* a faulty variant: updateCurrentUser without the u.id === updatedUser.id test
updateCurrentUserEvery(updatedUser) ==
    /\ appData' = [appData EXCEPT !.users =
           [i \in 1..Len(appData.users) |-> updatedUser]]
    /\ currentUser' = Some(updatedUser)

\* a faulty variant: updateCurrentUser without the setAppData call
updateCurrentUserStateOnly(updatedUser) ==
    /\ appData' = appData
    /\ currentUser' = Some(updatedUser)

\* updateCurrentUser (lines 263-269)
updateCurrentUser(updatedUser) ==
    /\ appData' = [appData EXCEPT !.users =
           [i \in 1..Len(appData.users) |->
               IF appData.users[i].id = updatedUser.id
               THEN updatedUser ELSE appData.users[i]]]
    /\ currentUser' = Some(updatedUser)

\* a faulty variant: line 130 building the list from the new user alone
UsersWithOnly(users, newUser) == <<newUser>>

\* line 130: users: [...appData.users, newUser]
UsersWith(users, newUser) == Append(users, newUser)

\* the state change of signUp (lines 115-137) called from a render whose
\* appData was data
signUpWith(data, email, password) ==
    /\ LET newUser == [id          |-> nextId + 1,
                       email       |-> email,
                       password    |-> hashPassword(password),
                       habits      |-> <<>>,
                       moods       |-> <<>>,
                       reflections |-> <<>>]
       IN  /\ appData' = [data EXCEPT !.users = UsersWith(data.users, newUser),
                                      !.currentUser = Some(newUser.id)]
           /\ currentUser' = Some(newUser)
    /\ nextId' = nextId + 1

\* signUp (lines 115-137), reached from the auth screen
signUp(email, password) ==
    /\ CanCall
    /\ currentUser = None
    /\ nextId < MaxIds
    /\ signUpWith(appData, email, password)
    /\ Called([op |-> "signUp", email |-> email, password |-> password,
               userId |-> nextId + 1])
    /\ UNCHANGED <<selectedDate, theme>>
    /\ Frame
    /\ AfterHandler

\* the state change of signIn (lines 139-149) called from a render whose
\* appData was data
signInWith(data, email, password) ==
    LET user == FindUser(data.users, email, hashPassword(password))
    IN  IF user # None
        THEN /\ appData' = [data EXCEPT !.currentUser = Some(Val(user).id)]
             /\ currentUser' = user
        ELSE UNCHANGED <<appData, currentUser>>

\* signIn (lines 139-149), reached from the auth screen
signIn(email, password) ==
    /\ CanCall
    /\ currentUser = None
    /\ signInWith(appData, email, password)
    /\ Called([op |-> "signIn", email |-> email, password |-> password,
               returned |-> FindUser(appData.users, email, hashPassword(password)) # None,
               signedOut |-> IF lastOp.op = "signOut" THEN lastOp.signedUp ELSE None,
               before |-> [appData |-> appData, currentUser |-> currentUser]])
    /\ UNCHANGED <<selectedDate, nextId, theme>>
    /\ Frame
    /\ AfterHandler

\* signOut (lines 151-155), reached from the header
signOut ==
    /\ CanCall
    /\ currentUser # None
    /\ appData' = [appData EXCEPT !.currentUser = None]
    /\ currentUser' = None
    /\ Called([op |-> "signOut",
               signedUp |-> IF lastOp.op = "signUp" THEN Some(lastOp) ELSE None])
    /\ UNCHANGED <<selectedDate, nextId, theme>>
    /\ Frame
    /\ AfterHandler

\* lines 164-171: { id, ...habitData, createdAt, completions, currentStreak, longestStreak }
NewHabit(id, habitData, createdAt) ==
    LET last == [createdAt     |-> createdAt,
                 completions   |-> {},
                 currentStreak |-> 0,
                 longestStreak |-> 0]
    IN  [f \in {"id"} \cup DOMAIN habitData \cup DOMAIN last |->
            IF f \in DOMAIN last THEN last[f]
            ELSE IF f \in DOMAIN habitData THEN habitData[f]
            ELSE id]

\* addHabit (lines 163-178) with the habit form's data (HabitModal, 1756-1771)
addHabit(habitData) ==
    /\ CanCall
    /\ currentUser # None
    /\ nextId < MaxIds
    /\ LET newHabit == NewHabit(nextId + 1, habitData, now)
           user == Val(currentUser)
       IN  updateCurrentUser([user EXCEPT !.habits = Append(user.habits, newHabit)])
    /\ nextId' = nextId + 1
    /\ Called([op |-> "addHabit"])
    /\ UNCHANGED <<selectedDate, theme>>
    /\ Frame
    /\ AfterHandler

\* a faulty variant: a merge that starts the habit's record of completions afresh
MergeAfresh(h, updates) ==
    [f \in DOMAIN h \cup DOMAIN updates |->
        IF f \in DOMAIN updates THEN updates[f]
        ELSE IF f = "completions" THEN {} ELSE h[f]]

\* { ...h, ...updates } for the fields an update can carry
Merge(h, updates) ==
    [f \in DOMAIN h \cup DOMAIN updates |->
        IF f \in DOMAIN updates THEN updates[f] ELSE h[f]]

\* a faulty variant: updateHabit without the h.id === habitId test
updateHabitEvery(habitId, updates) ==
    LET user == Val(currentUser)
    IN  updateCurrentUser([user EXCEPT !.habits =
            [i \in 1..Len(user.habits) |-> Merge(user.habits[i], updates)]])

\* the state change of updateHabit (lines 180-186)
updateHabit(habitId, updates) ==
    LET user == Val(currentUser)
    IN  updateCurrentUser([user EXCEPT !.habits =
            [i \in 1..Len(user.habits) |->
                IF user.habits[i].id = habitId
                THEN Merge(user.habits[i], updates) ELSE user.habits[i]]])

\* saving the habit form opened on a habit of the list: updateHabit(editingHabit.id, formData)
EditHabit(habitId, formData) ==
    /\ CanCall
    /\ currentUser # None
    /\ \E h \in Range(Val(currentUser).habits) : h.id = habitId
    /\ updateHabit(habitId, formData)
    /\ Called([op |-> "updateHabit", habitId |-> habitId])
    /\ UNCHANGED <<selectedDate, nextId, theme>>
    /\ Frame
    /\ SaveEffect
    /\ edited' = edited \cup {habitId}
    /\ UNCHANGED <<pendingAuth, selectedHabitForAnalytics>>

\* deleteHabit (lines 188-193), offered on the cards of the user's habits
deleteHabit(habitId) ==
    /\ CanCall
    /\ currentUser # None
    /\ \E h \in Range(Val(currentUser).habits) : h.id = habitId
    /\ LET user == Val(currentUser)
       IN  updateCurrentUser([user EXCEPT !.habits =
               SelectSeq(user.habits, LAMBDA h : h.id # habitId)])
    /\ Called([op |-> "deleteHabit"])
    /\ UNCHANGED <<selectedDate, nextId, theme>>
    /\ Frame
    /\ AfterHandler

\* a faulty variant: lines 200-205 without the delete branch
ToggledCompletionsAddOnly(completions, dateKey) == completions \cup {dateKey}

\* lines 200-205: the copy of the completion map with dateKey flipped
ToggledCompletions(completions, dateKey) ==
    IF dateKey \in completions
    THEN completions \ {dateKey}
    ELSE completions \cup {dateKey}

\* a faulty variant: line 207 passing the habit's stored map instead of the copy
ToggledStreaksOfStoredMap(zone, today, habit, completions, date) ==
    calculateStreaks(zone, today, habit.frequency, habit.completions, Some(date))

\* line 207: calculateStreaks(habit, completions, date)
ToggledStreaks(zone, today, habit, completions, date) ==
    calculateStreaks(zone, today, habit.frequency, completions, Some(date))

\* a faulty variant: line 200 taking habit.completions itself instead of a
\* copy, so that lines 201-205 write into the habit record found at line 197
HabitAfterToggleInPlace(habit, dateKey) ==
    [habit EXCEPT !.completions = ToggledCompletions(@, dateKey)]

\* the habit record found at line 197 as it is once the handler has run:
\* lines 200-205 write into a copy of its map, line 183 builds a new record
HabitAfterToggle(habit, dateKey) == habit

\* toggleHabitCompletion (lines 195-209).  The record of the call keeps the
\* completion map the habit had before it, whether the call repeats the
\* call just before it (then also the map before that one), and the habit
\* record the call found as that record is after the call.
toggleHabitCompletion(habitId, date) ==
    /\ CanCall
    /\ currentUser # None
    /\ LET dateKey == getDateKey(date)
           habit   == FindHabit(Val(currentUser).habits, habitId)
           repeat  == /\ lastOp.op = "toggleHabitCompletion"
                      /\ lastOp.habitId = habitId
                      /\ lastOp.date = date
                      /\ lastOp.before # None
       IN  IF habit = None
           THEN /\ UNCHANGED <<appData, currentUser>>
                /\ Called([op |-> "toggleHabitCompletion", habitId |-> habitId,
                           date |-> date, before |-> None,
                           repeat |-> FALSE, before2 |-> None,
                           found |-> None])
           ELSE LET completions == ToggledCompletions(Val(habit).completions, dateKey)
                    streaks     == ToggledStreaks(timeZone, now, Val(habit),
                                                  completions, date)
                IN  /\ updateHabit(habitId,
                          [completions |-> completions] @@ streaks)
                    /\ Called([op |-> "toggleHabitCompletion", habitId |-> habitId,
                               date |-> date,
                               before |-> Some(Val(habit).completions),
                               repeat |-> repeat,
                               before2 |-> IF repeat THEN lastOp.before ELSE None,
                               found |-> Some(HabitAfterToggle(Val(habit), dateKey))])
    /\ UNCHANGED <<selectedDate, nextId, theme>>
    /\ Frame
    /\ AfterHandler

\* a faulty variant: habit.selectedDays.includes(day) without the ?. guard
selectedDaysIncludesUnguarded(habit, day) ==
    IF "selectedDays" \notin DOMAIN habit THEN "TypeError"
    ELSE IF day \in habit.selectedDays THEN "true" ELSE "false"

\* a faulty variant: includes(day) with Monday numbered 0
selectedDaysIncludesMondayFirst(habit, day) ==
    IF "selectedDays" \notin DOMAIN habit THEN "undefined"
    ELSE IF ((day + 6) % 7) \in habit.selectedDays THEN "true" ELSE "false"

\* line 1606: habit.selectedDays?.includes(day); a habit record without the
\* field has no "selectedDays" in its domain
selectedDaysIncludes(habit, day) ==
    IF "selectedDays" \notin DOMAIN habit THEN "undefined"
    ELSE IF day \in habit.selectedDays THEN "true" ELSE "false"

\* a faulty variant: a filter that keeps every habit on every day
TodayHabitsCallbackEveryDay(habit, date) == "true"

\* the callback of the dashboard's filter (lines 1602-1609): what it returns
TodayHabitsCallback(habit, date) ==
    IF habit.frequency = "daily" THEN "true"
    ELSE IF habit.frequency = "weekly"
         THEN selectedDaysIncludes(habit, getDay(date))
         ELSE "true"

\* filter keeps the habits whose callback returned a truthy value
IsTodayHabit(habit, date) == TodayHabitsCallback(habit, date) = "true"

\* todayHabits (lines 1602-1609): the filtered list, or the exception a
\* callback raised
todayHabits(habits, date) ==
    IF \E i \in 1..Len(habits) : TodayHabitsCallback(habits[i], date) = "TypeError"
    THEN [threw |-> TRUE, habits |-> <<>>]
    ELSE [threw |-> FALSE,
          habits |-> SelectSeq(habits, LAMBDA h : IsTodayHabit(h, date))]

\* a click on a habit card of the dashboard (lines 1677-1686)
DashboardToggle ==
    /\ CanCall
    /\ currentUser # None
    /\ \E h \in Range(Val(currentUser).habits) :
          /\ IsTodayHabit(h, selectedDate)
          /\ toggleHabitCompletion(h.id, selectedDate)

\* a click on a day of the calendar view (line 1873)
setSelectedDate(date) ==
    /\ CanCall
    /\ currentUser # None
    /\ date # selectedDate
    /\ selectedDate' = date
    /\ Called([op |-> "setSelectedDate"])
    /\ UNCHANGED <<appData, currentUser, nextId, theme>>
    /\ Frame
    /\ AfterHandler

\* what the habit form can be submitted with (lines 1756-1771)
HabitForms == [frequency : Frequencies, selectedDays : WeekdayChoices]

Next ==
    \/ \E e \in Emails, p \in Passwords : signUp(e, p)
    \/ \E e \in Emails, p \in Passwords : signIn(e, p)
    \/ signOut
    \/ \E f \in HabitForms : addHabit(f)
    \/ \E id \in 1..MaxIds, f \in HabitForms : EditHabit(id, f)
    \/ \E id \in 1..MaxIds : deleteHabit(id)
    \/ DashboardToggle
    \/ \E d \in AppDays : setSelectedDate(d)

Spec == AppInit /\ [][Next]_vars

\* the handlers called with any arguments
NextHandlers ==
    \/ Next
    \/ \E id \in 1..MaxIds, d \in AppDays : toggleHabitCompletion(id, d)

HandlersInit == AppStart /\ opLimit = MaxHandlerOps

SpecHandlers == HandlersInit /\ [][NextHandlers]_vars

----------------------------------------------------------------------------
(* The statistics functions (App.jsx 271-314) and the calls of them on     *)
(* enumerated habits.                                                      *)

\* getDaysDifference (lines 26-32) on two Dates: each is copied, moved to its
\* local midnight, and the difference of the instants is floored to days
getDaysDifferenceOfDates(zone, date1, date2) ==
    (LocalMidnight(zone, date1) - LocalMidnight(zone, date2)) \div 24

\* Number.prototype.toFixed(1) of num / den >= 0: the decimal string
\* "whole.tenth", ties rounded up
toFixed1(num, den) ==
    LET n == (20 * num + den) \div (2 * den)
    IN  [whole |-> n \div 10, tenth |-> n % 10]

\* a faulty variant: line 274 dividing whenever totalDays is not zero
CompletionRateUnguarded(count, totalDays) ==
    IF totalDays # 0 THEN [num |-> count * 100, den |-> totalDays]
    ELSE [num |-> 0, den |-> 1]

\* line 274: totalDays > 0 ? (completions.length / totalDays) * 100 : 0
CompletionRate(count, totalDays) ==
    IF totalDays > 0 THEN [num |-> count * 100, den |-> totalDays]
    ELSE [num |-> 0, den |-> 1]

\* getHabitStats (lines 271-282)
getHabitStats(zone, today, habit) ==
    LET count          == Cardinality(habit.completions)
        totalDays      == getDaysDifferenceOfDates(zone, today, habit.createdAt)
        completionRate == CompletionRate(count, totalDays)
    IN  [totalCompletions |-> count,
         completionRate   |-> toFixed1(completionRate.num, completionRate.den),
         currentStreak    |-> habit.currentStreak,
         longestStreak    |-> habit.longestStreak]

\* new Date(year, month, day): month is 0..11, and a month of 12 or a day of
\* 0 rolls over into the neighbouring month
DateOf(year, month, day) ==
    DaysFromCivil(year + (month \div 12), (month % 12) + 1, 1) + (day - 1)

\* line 285: new Date(year, month + 1, 0).getDate()
DaysInMonth(month, year) == CivilFromDays(DateOf(year, month + 1, 0))[3]

\* a faulty variant: the loop of line 288 running for 30 days in every month
getMonthlyDataThirtyDays(habit, month, year) ==
    [day \in 1..30 |->
        LET dateKey == getDateKey(DateOf(year, month, day))
        IN  [day       |-> day,
             completed |-> IF dateKey \in habit.completions THEN 1 ELSE 0,
             date      |-> dateKey]]

\* getMonthlyData (lines 284-298)
getMonthlyData(habit, month, year) ==
    [day \in 1..DaysInMonth(month, year) |->
        LET dateKey == getDateKey(DateOf(year, month, day))
        IN  [day       |-> day,
             completed |-> IF dateKey \in habit.completions THEN 1 ELSE 0,
             date      |-> dateKey]]

\* toLocaleDateString('en-US', { month: 'short' })
MonthShort ==
    <<"Jan", "Feb", "Mar", "Apr", "May", "Jun",
      "Jul", "Aug", "Sep", "Oct", "Nov", "Dec">>

\* a faulty variant: line 309 dividing by 31 in every month
YearlyRateOfThirtyOne(completions, total) ==
    [num |-> completions * 100, den |-> 31]

\* line 309: total > 0 ? (completions / total) * 100 : 0
YearlyRate(completions, total) ==
    IF total > 0 THEN [num |-> completions * 100, den |-> total]
    ELSE [num |-> 0, den |-> 1]

\* getYearlyData (lines 300-314)
getYearlyData(habit, year) ==
    [m \in 1..12 |->
        LET monthData   == getMonthlyData(habit, m - 1, year)
            completions == Len(SelectSeq(monthData, LAMBDA d : d.completed = 1))
            total       == Len(monthData)
        IN  [month          |-> MonthShort[m],
             completionRate |-> YearlyRate(completions, total),
             completions    |-> completions]]

\* a faulty variant: the backward scan stepping over the days of the week a
\* weekly habit is not scheduled on
calculateStreaksOnSelectedDays(zone, today, habit, completions, referenceDate) ==
    LET checkDate == IF referenceDate = None THEN today ELSE Val(referenceDate)
        skipped   == IF habit.frequency = "weekly" /\ "selectedDays" \in DOMAIN habit
                     THEN {getDateKey(d) : d \in {e \in (checkDate - 7)..checkDate :
                                                     getDay(e) \notin habit.selectedDays}}
                     ELSE {}
        walked    == calculateStreaks(zone, today, habit.frequency,
                                      completions \cup skipped, referenceDate)
        plain     == calculateStreaks(zone, today, habit.frequency,
                                      completions, referenceDate)
    IN  IF completions = {} THEN plain
        ELSE [currentStreak |-> walked.currentStreak,
              longestStreak |-> Max(plain.longestStreak, walked.currentStreak)]

\* a faulty variant: completions dated before the habit was created left out
calculateStreaksSinceCreation(zone, today, habit, completions, referenceDate) ==
    calculateStreaks(zone, today, habit.frequency,
                     {k \in completions :
                         DaysFromCivil(k[1], k[2], k[3]) >= habit.createdAt},
                     referenceDate)

\* calculateStreaks(habit, completions, referenceDate): of the habit it reads
\* habit.frequency (line 235)
calculateStreaksOfHabit(zone, today, habit, completions, referenceDate) ==
    calculateStreaks(zone, today, habit.frequency, completions, referenceDate)

\* the days the enumerated habits are completed on, Sunday 2024-03-10 to
\* Wednesday 2024-03-13, and the days they are asked about: those and the
\* Saturday after
StatsDays == DaysFromCivil(2024, 3, 10) .. (DaysFromCivil(2024, 3, 10) + NumStatsDays - 1)
StatsKeys == {getDateKey(z) : z \in StatsDays}
AskedDays == StatsDays \cup {DaysFromCivil(2024, 3, 16)}

Difficulties == {"easy", "hard"}
Names        == {"Run", "Read"}

\* habit records as addHabit builds them from the form (lines 164-171), and
\* the same records without a selectedDays field
HabitsWithDays(frequencies, names, weekdays, difficulties, created, keys) ==
    [name          : names,
     frequency     : frequencies,
     selectedDays  : weekdays,
     difficulty    : difficulties,
     createdAt     : created,
     completions   : SUBSET keys,
     currentStreak : {0},
     longestStreak : {0}]

HabitsWithoutDays(frequencies, created, keys) ==
    [name          : {"Run"},
     frequency     : frequencies,
     difficulty    : {"easy"},
     createdAt     : created,
     completions   : SUBSET keys,
     currentStreak : {0},
     longestStreak : {0}]

\* the habits calculateStreaks and the dashboard's filter are called on
ScheduleHabits ==
    HabitsWithDays(Frequencies, Names, WeekdayChoices, Difficulties,
                   {DaysFromCivil(2024, 3, 11)}, StatsKeys)
    \cup HabitsWithoutDays(Frequencies, {DaysFromCivil(2024, 3, 11)}, StatsKeys)

\* the days the habits of the statistics calls were created on, and the days
\* the statistics are asked for on
CreatedDays == {DaysFromCivil(2024, 3, 5), DaysFromCivil(2024, 3, 13),
                DaysFromCivil(2024, 3, 16)}
TodayDays   == {DaysFromCivil(2024, 3, 13), DaysFromCivil(2024, 3, 15)}

\* the habits getHabitStats, getMonthlyData and getYearlyData are called on
MeasuredHabits ==
    HabitsWithDays({"daily"}, {"Run"}, {{}}, {"easy"}, CreatedDays,
                   StatsKeys \cup {<<2024, 2, 29>>})

\* the months asked about (numbered from 0): February of a common year and
\* of a leap year, and March
MonthsAsked == {<<1, 2023>>, <<1, 2024>>, <<2, 2024>>}

StatsInit ==
    /\ timeZone \in TimeZones
    /\ \/ /\ argHabit \in {Some(h) : h \in ScheduleHabits}
          /\ argDate \in AskedDays
          /\ now = DaysFromCivil(2024, 3, 13)
          /\ argMonth = 2
          /\ argYear = 2024
       \/ /\ argHabit \in {Some(h) : h \in MeasuredHabits}
          /\ argDate = DaysFromCivil(2024, 3, 13)
          /\ now \in TodayDays
          /\ \E asked \in MonthsAsked : argMonth = asked[1] /\ argYear = asked[2]
    /\ returned = None
    /\ argFrequency = "daily"
    /\ argCompletions = {}
    /\ argReferenceDate = None
    /\ result = None
    /\ examined = 0
    /\ appData = [users |-> <<>>, currentUser |-> None, theme |-> "dark"]
    /\ currentUser = None
    /\ theme = "dark"
    /\ selectedDate = now
    /\ nextId = 0
    /\ opCount = 0
    /\ opLimit = 0
    /\ lastOp = [op |-> "init"]
    /\ localStorage = None
    /\ pendingAuth = None
    /\ selectedHabitForAnalytics = None
    /\ edited = {}

\* a call leaves its arguments and everything else as they are
Returns(fn, value) ==
    /\ returned = None
    /\ returned' = Some([fn |-> fn, value |-> value])
    /\ UNCHANGED <<timeZone, fnVars, appVars, argHabit, argDate, argMonth, argYear,
                   sessionVars>>

CallCalculateStreaksOfHabit ==
    Returns("calculateStreaks",
            calculateStreaksOfHabit(timeZone, now, Val(argHabit),
                                    Val(argHabit).completions, Some(argDate)))

CallTodayHabits ==
    Returns("todayHabits", todayHabits(<<Val(argHabit)>>, argDate))

CallGetHabitStats ==
    Returns("getHabitStats", getHabitStats(timeZone, now, Val(argHabit)))

CallGetMonthlyData ==
    Returns("getMonthlyData", getMonthlyData(Val(argHabit), argMonth, argYear))

CallGetYearlyData ==
    Returns("getYearlyData", getYearlyData(Val(argHabit), argYear))

StatsNext ==
    \/ CallCalculateStreaksOfHabit
    \/ CallTodayHabits
    \/ CallGetHabitStats
    \/ CallGetMonthlyData
    \/ CallGetYearlyData

SpecStats == StatsInit /\ [][StatsNext]_vars

----------------------------------------------------------------------------
(* The component used by several accounts: the handlers above with the     *)
(* theme, mood and reflection handlers and the analytics view.             *)

\* { ...map, [key]: value }
Put(map, key, value) ==
    [k \in DOMAIN map \cup {key} |-> IF k = key THEN value ELSE map[k]]

\* toggleTheme (lines 157-161), on the auth screen and in the header
toggleTheme ==
    /\ CanCall
    /\ LET newTheme == IF theme = "dark" THEN "light" ELSE "dark"
       IN  /\ theme' = newTheme
           /\ appData' = [appData EXCEPT !.theme = newTheme]
    /\ Called([op |-> "toggleTheme"])
    /\ UNCHANGED <<currentUser, selectedDate, nextId>>
    /\ Frame
    /\ AfterHandler

\* setMood (lines 247-253), from the dashboard's mood buttons (line 1696)
setMood(date, mood) ==
    /\ CanCall
    /\ currentUser # None
    /\ LET user == Val(currentUser)
       IN  updateCurrentUser([user EXCEPT !.moods =
               Put(user.moods, getDateKey(date), mood)])
    /\ Called([op |-> "setMood"])
    /\ UNCHANGED <<selectedDate, nextId, theme>>
    /\ Frame
    /\ AfterHandler

\* setReflection (lines 255-261), from the dashboard's text area (line 1709)
setReflection(date, text) ==
    /\ CanCall
    /\ currentUser # None
    /\ LET user == Val(currentUser)
       IN  updateCurrentUser([user EXCEPT !.reflections =
               Put(user.reflections, getDateKey(date), text)])
    /\ Called([op |-> "setReflection"])
    /\ UNCHANGED <<selectedDate, nextId, theme>>
    /\ Frame
    /\ AfterHandler

\* line 1927: selectedHabit || user.habits[0]  (None: undefined)
habitToAnalyzeOf(user) ==
    IF selectedHabitForAnalytics # None THEN selectedHabitForAnalytics
    ELSE IF user.habits # <<>> THEN Some(user.habits[1])
    ELSE None

\* a render of the analytics view (lines 1924-1940): the three statistics
\* calls and what they returned
AnalyticsView ==
    /\ CanCall
    /\ currentUser # None
    /\ habitToAnalyzeOf(Val(currentUser)) # None
    /\ LET habitToAnalyze == Val(habitToAnalyzeOf(Val(currentUser)))
           currentMonth   == CivilFromDays(now)[2] - 1
           currentYear    == CivilFromDays(now)[1]
       IN  Called([op          |-> "AnalyticsView",
                   stats       |-> getHabitStats(timeZone, now, habitToAnalyze),
                   monthlyData |-> getMonthlyData(habitToAnalyze, currentMonth,
                                                  currentYear),
                   yearlyData  |-> getYearlyData(habitToAnalyze, currentYear)])
    /\ UNCHANGED <<appData, currentUser, selectedDate, nextId, theme>>
    /\ Frame
    /\ AfterHandler

\* the mood buttons' values and the reflection texts entered
MoodValues  == {5}
Reflections == {"rested"}

\* the habit forms submitted
AccountForms == {[frequency |-> "daily", selectedDays |-> {}],
                 [frequency |-> "weekly", selectedDays |-> {0, 2}]}

\* the passwords typed into the sign-in form: a registered one and a wrong one
SignInPasswords == Passwords \cup {"pw0"}

NextAccounts ==
    \/ \E e \in Emails, p \in Passwords : signUp(e, p)
    \/ \E e \in Emails, p \in SignInPasswords : signIn(e, p)
    \/ signOut
    \/ toggleTheme
    \/ \E f \in AccountForms : addHabit(f)
    \/ \E id \in 1..MaxIds, f \in AccountForms : EditHabit(id, f)
    \/ \E id \in 1..MaxIds : deleteHabit(id)
    \/ DashboardToggle
    \/ \E m \in MoodValues : setMood(selectedDate, m)
    \/ \E t \in Reflections : setReflection(selectedDate, t)
    \/ AnalyticsView

AccountsInit == AppStart /\ opLimit = MaxAccountOps

SpecAccounts == AccountsInit /\ [][NextAccounts]_vars

----------------------------------------------------------------------------
(* One user's habits over several days: the clock that new Date() reads    *)
(* (lines 83, 167, 213, 272) moves on while the page stays open.           *)

\* midnight passes; no state of the component changes
DayPasses ==
    /\ CanCall
    /\ now < AppToday + MaxDaysPassed
    /\ now' = now + 1
    /\ Called([op |-> "dayPasses"])
    /\ UNCHANGED <<appData, currentUser, theme, selectedDate, nextId>>
    /\ UNCHANGED <<timeZone, argFrequency, argCompletions, argReferenceDate,
                   result, examined, statVars, sessionVars>>

\* the habit forms submitted: every day, and Sundays and Tuesdays
DayForms == {[frequency |-> "daily", selectedDays |-> {}],
             [frequency |-> "weekly", selectedDays |-> {0, 2}]}

NextDays ==
    \/ \E e \in Emails, p \in Passwords : signUp(e, p)
    \/ \E f \in DayForms : addHabit(f)
    \/ \E id \in 1..MaxIds, f \in DayForms : EditHabit(id, f)
    \/ DashboardToggle
    \/ \E d \in AppDays : setSelectedDate(d)
    \/ DayPasses

DaysInit == AppStart /\ opLimit = MaxDayOps

SpecDays == DaysInit /\ [][NextDays]_vars

----------------------------------------------------------------------------
(* A session in the browser.  The auth form does not call signUp or signIn *)
(* at once: handleSubmit (lines 503-529) hands signUp to a timer of 600 ms *)
(* (line 515) and signIn waits for the digest of the password (line 140).  *)
(* Either runs later, as the function of the render that was on screen at  *)
(* the submit, and so with that render's appData.  Until it has run, the   *)
(* submit button is disabled (line 720) and the theme button is not (line  *)
(* 565).  The page can be reloaded at any time.                            *)

\* the submit of the auth form in sign-up mode (lines 503-516)
SubmitSignUp(email, password) ==
    /\ CanCall
    /\ currentUser = None
    /\ pendingAuth = None
    /\ nextId < MaxIds
    /\ pendingAuth' = Some([kind |-> "signUp", email |-> email,
                             password |-> password, appData |-> appData])
    /\ Called([op |-> "submit"])
    /\ UNCHANGED <<appData, currentUser, theme, selectedDate, nextId,
                   localStorage, selectedHabitForAnalytics, edited>>
    /\ Frame

\* the submit of the auth form in sign-in mode (lines 503-523)
SubmitSignIn(email, password) ==
    /\ CanCall
    /\ currentUser = None
    /\ pendingAuth = None
    /\ pendingAuth' = Some([kind |-> "signIn", email |-> email,
                             password |-> password, appData |-> appData])
    /\ Called([op |-> "submit"])
    /\ UNCHANGED <<appData, currentUser, theme, selectedDate, nextId,
                   localStorage, selectedHabitForAnalytics, edited>>
    /\ Frame

\* the timer of line 515 fires: signUp of the submitting render runs
RunSignUp ==
    /\ pendingAuth # None
    /\ Val(pendingAuth).kind = "signUp"
    /\ LET p == Val(pendingAuth)
       IN  /\ signUpWith(p.appData, p.email, p.password)
           /\ lastOp' = [op |-> "signUp", email |-> p.email,
                         password |-> p.password, userId |-> nextId + 1]
    /\ pendingAuth' = None
    /\ SaveEffect
    /\ UNCHANGED <<theme, selectedDate, opCount, opLimit,
                   selectedHabitForAnalytics, edited>>
    /\ Frame

\* the digest of line 140 is there: signIn of the submitting render goes on
RunSignIn ==
    /\ pendingAuth # None
    /\ Val(pendingAuth).kind = "signIn"
    /\ LET p == Val(pendingAuth)
       IN  /\ signInWith(p.appData, p.email, p.password)
           /\ lastOp' = [op |-> "signIn", email |-> p.email,
                         password |-> p.password,
                         returned |-> FindUser(p.appData.users, p.email,
                                               hashPassword(p.password)) # None]
    /\ pendingAuth' = None
    /\ SaveEffect
    /\ UNCHANGED <<theme, selectedDate, nextId, opCount, opLimit,
                   selectedHabitForAnalytics, edited>>
    /\ Frame

\* the habit select of the analytics view picks another habit (line 1950)
SelectHabitForAnalytics(habitId) ==
    /\ CanCall
    /\ currentUser # None
    /\ habitToAnalyzeOf(Val(currentUser)) # None
    /\ Val(habitToAnalyzeOf(Val(currentUser))).id # habitId
    /\ FindHabit(Val(currentUser).habits, habitId) # None
    /\ selectedHabitForAnalytics' = FindHabit(Val(currentUser).habits, habitId)
    /\ Called([op |-> "selectHabit", habitId |-> habitId])
    /\ UNCHANGED <<appData, currentUser, theme, selectedDate, nextId,
                   localStorage, pendingAuth, edited>>
    /\ Frame

\* storage.loadData() (lines 53-61)
loadData ==
    IF localStorage # None THEN JSONparse(Val(localStorage))
    ELSE [users |-> <<>>, currentUser |-> None, theme |-> "dark"]

\* the page is loaded again: the component's state starts over (lines 78-87),
\* the init effect reads the stored data (lines 89-107), the save effect
\* writes it back (lines 109-113), and the timers of the old page are gone
Reload ==
    /\ CanCall
    /\ LET data == loadData
       IN  /\ appData' = data
           /\ theme' = data.theme
           /\ currentUser' = IF data.currentUser # None
                              THEN FirstAt(data.users,
                                       {i \in 1..Len(data.users) :
                                           data.users[i].id = Val(data.currentUser)})
                              ELSE None
    /\ selectedDate' = now
    /\ selectedHabitForAnalytics' = None
    /\ pendingAuth' = None
    /\ SaveEffect
    /\ Called([op |-> "reload"])
    /\ UNCHANGED <<nextId, edited>>
    /\ Frame

\* the habit forms submitted
SessionForms ==
    {[name |-> "Run", description |-> "", frequency |-> "daily",
      selectedDays |-> {}, difficulty |-> "medium"],
     [name |-> "Read", description |-> "at night", frequency |-> "weekly",
      selectedDays |-> {0, 2}, difficulty |-> "hard"]}

NextSession ==
    \/ \E e \in Emails, p \in Passwords : SubmitSignUp(e, p)
    \/ \E e \in Emails, p \in Passwords : SubmitSignIn(e, p)
    \/ RunSignUp
    \/ RunSignIn
    \/ signOut
    \/ toggleTheme
    \/ \E f \in SessionForms : addHabit(f)
    \/ \E id \in 1..MaxIds, f \in SessionForms : EditHabit(id, f)
    \/ \E id \in 1..MaxIds : deleteHabit(id)
    \/ DashboardToggle
    \/ \E m \in MoodValues : setMood(selectedDate, m)
    \/ \E id \in 1..MaxIds : SelectHabitForAnalytics(id)
    \/ Reload

SessionInit == AppStart /\ opLimit = MaxSessionOps

SpecSession == SessionInit /\ [][NextSession]_vars

----------------------------------------------------------------------------
(* What the claims are stated with: calendar-day arithmetic on the keys,   *)
(* independent of the host's clock.                                        *)

KeyDay(key) == DaysFromCivil(key[1], key[2], key[3])

\* the reference date of the calculateStreaks call
RefDay == IF argReferenceDate = None THEN now ELSE Val(argReferenceDate)

\* number of consecutive completed calendar days counted backward from date
ConsecutiveBack(completions, date) ==
    CHOOSE n \in 0..Cardinality(completions) :
        /\ \A i \in 0..(n - 1) : getDateKey(date - i) \in completions
        /\ getDateKey(date - n) \notin completions

\* size of the largest run of completed days in which each day is at most
\* gap calendar days after the one before it
LargestRun(completions, gap) ==
    LET days   == {KeyDay(k) : k \in completions}
        starts == {e \in days : \A f \in (e - gap)..(e - 1) : f \notin days}
        Size(a) == Cardinality({d \in days :
                       d >= a /\ \A b \in starts : b <= a \/ b > d})
    IN  MaxOf({0} \cup {Size(a) : a \in starts})

Ordered(streaks) ==
    0 <= streaks.currentStreak /\ streaks.currentStreak <= streaks.longestStreak

AllHabitsOf(users) == UNION {Range(u.habits) : u \in users}
StoredUsers == Range(appData.users) \cup Range(currentUser)
StoredHabits == AllHabitsOf(StoredUsers)

----------------------------------------------------------------------------
\* C1 (as stated): calculateStreaks returns as currentStreak the number of
\* consecutive calendar days, counted backward from and including the
\* reference date, whose keys are all in completions.
C1_CurrentStreakUncapped ==
    result # None =>
        Val(result).currentStreak = ConsecutiveBack(argCompletions, RefDay)

\* C1 (amended): currentStreak is that number of consecutive completed days,
\* or 366 when 366 or more consecutive days ending at the reference date are
\* completed; it is 0 when the reference date itself is not completed.
C1_CurrentStreakUpTo366 ==
    result # None =>
        LET n == ConsecutiveBack(argCompletions, RefDay)
        IN  Val(result).currentStreak = IF n > 366 THEN 366 ELSE n

\* today, today-1, today-2 completed and today-3 not: the call returned 3
C1_Witness ==
    /\ result # None
    /\ \A i \in 0..2 : getDateKey(RefDay - i) \in argCompletions
    /\ getDateKey(RefDay - 3) \notin argCompletions
    /\ Val(result).currentStreak = 3

\* C2: for a Daily habit, longestStreak is the size of the largest run of
\* completion dates each exactly one calendar day after the previous one.
C2_DailyLongestIsLargestRun ==
    (result # None /\ argFrequency = "daily") =>
        Val(result).longestStreak = LargestRun(argCompletions, 1)

\* C3: for a Weekly habit, longestStreak is the size of the largest run of
\* sorted completion dates with every consecutive pair at most 7 days apart.
C3_WeeklyLongestIsLargestRun ==
    (result # None /\ argFrequency = "weekly") =>
        Val(result).longestStreak = LargestRun(argCompletions, 7)

\* C5: on an empty completion map calculateStreaks returns 0 and 0, for every
\* frequency and reference date.
C5_EmptyGivesZero ==
    (result # None /\ argCompletions = {}) =>
        (Val(result).currentStreak = 0 /\ Val(result).longestStreak = 0)

\* the call returned for a weekly habit with no completions and no date given
C5_Witness ==
    /\ result # None
    /\ argCompletions = {}
    /\ argFrequency = "weekly"
    /\ argReferenceDate = None

\* C6: the backward scan looks up at most 366 keys and currentStreak never
\* exceeds 366.
C6_ScanStopsAt366 ==
    result # None => (examined <= 366 /\ Val(result).currentStreak <= 366)

\* more than 366 consecutive days ending at the reference date are completed:
\* the scan stopped at 366 and longestStreak is larger
C6_Witness ==
    /\ result # None
    /\ ConsecutiveBack(argCompletions, RefDay) > 366
    /\ examined = 366
    /\ Val(result).currentStreak = 366
    /\ Val(result).longestStreak > 366

----------------------------------------------------------------------------
\* the habit of the signed-in user the last call named
LastHabit ==
    Val(FindHabit(Val(currentUser).habits, lastOp.habitId))

ToggledExisting ==
    lastOp.op = "toggleHabitCompletion" /\ lastOp.before # None

\* calculateStreaks orders its result on every enumerated argument list
CalcOrderedOnInputs ==
    \A zone \in TimeZones, f \in Frequencies, c \in SUBSET WindowKeys,
       r \in {None} \cup {Some(z) : z \in WindowDays} :
        Ordered(calculateStreaks(zone, WindowEnd, f, c, r))

\* C4: every stored habit of every user has 0 <= currentStreak <= longestStreak,
\* and calculateStreaks returns such a pair for every completion set,
\* frequency and reference date.
C4_StreaksOrdered ==
    /\ \A h \in StoredHabits : Ordered(h)
    /\ CalcOrderedOnInputs

\* a habit with two days completed in a row holds the streak 2 of 2
C4_Witness ==
    \E h \in StoredHabits :
        /\ Cardinality(h.completions) = 2
        /\ h.currentStreak = 2
        /\ h.longestStreak = 2

\* C7: toggling the same date twice on the same habit leaves the habit's
\* completion map equal to the map before the first toggle.
C7_ToggleTwiceRestores ==
    (lastOp.op = "toggleHabitCompletion" /\ lastOp.repeat) =>
        LastHabit.completions = Val(lastOp.before2)

\* the second of two toggles of one date on a habit that had another day completed
C7_Witness ==
    /\ lastOp.op = "toggleHabitCompletion"
    /\ lastOp.repeat
    /\ Val(lastOp.before2) # {}
    /\ getDateKey(lastOp.date) \notin Val(lastOp.before2)

\* what a toggleHabitCompletion(id, date) step may change
ToggleFrame(id, date) ==
    LET key  == getDateKey(date)
        pre  == Val(currentUser).habits
        post == Val(currentUser').habits
    IN  IF \E h \in Range(pre) : h.id = id
        THEN /\ Len(post) = Len(pre)
             /\ \A i \in 1..Len(pre) :
                   /\ post[i].id = pre[i].id
                   /\ IF pre[i].id = id
                      THEN /\ (key \in post[i].completions)
                                  <=> (key \notin pre[i].completions)
                           /\ post[i].completions \ {key} = pre[i].completions \ {key}
                      ELSE post[i].completions = pre[i].completions
             /\ Len(appData'.users) = Len(appData.users)
             /\ \A i \in 1..Len(appData.users) :
                   IF appData.users[i].id = Val(currentUser).id
                   THEN appData'.users[i].habits = post
                   ELSE appData'.users[i] = appData.users[i]
        ELSE appData' = appData /\ currentUser' = currentUser

\* C8: toggleHabitCompletion(h, d) inserts the key of d into h's completions
\* if absent and removes it if present, changes no other key of h and no
\* completion of any other habit; with no habit of id h nothing changes.
C8_ToggleFlipsOneKey ==
    [][(opCount' # opCount /\ lastOp'.op = "toggleHabitCompletion")
          => ToggleFrame(lastOp'.habitId, lastOp'.date)]_vars

\* a toggle has removed a key from one of two habits of the user
C8_Witness ==
    /\ ToggledExisting
    /\ Len(Val(currentUser).habits) = 2
    /\ getDateKey(lastOp.date) \in Val(lastOp.before)
    /\ getDateKey(lastOp.date) \notin LastHabit.completions

\* C9: after toggleHabitCompletion(h, d) on an existing habit, the stored
\* currentStreak and longestStreak are calculateStreaks of the habit's
\* frequency, the new completion map and d as reference date.
C9_ToggleStoresStreaks ==
    ToggledExisting =>
        LET h == LastHabit
        IN  [currentStreak |-> h.currentStreak, longestStreak |-> h.longestStreak]
              = calculateStreaks(timeZone, now, h.frequency, h.completions,
                                 Some(lastOp.date))

\* a toggle has completed the day after a completed day
C9_Witness ==
    /\ ToggledExisting
    /\ getDateKey(lastOp.date) \in LastHabit.completions
    /\ getDateKey(lastOp.date - 1) \in LastHabit.completions
    /\ LastHabit.currentStreak = 2

\* C10: each habit's stored longestStreak is the longest streak recomputed
\* from its current completions and its current frequency (with some
\* reference date among the selectable days).
C10_LongestRecomputable ==
    \A h \in StoredHabits :
        \E d \in AppDays :
            h.longestStreak =
                calculateStreaks(timeZone, now, h.frequency, h.completions,
                                 Some(d)).longestStreak

----------------------------------------------------------------------------
(* The statistics calls. *)

CalledFn(fn) == returned # None /\ Val(returned).fn = fn
Returned     == Val(returned).value
Habit        == Val(argHabit)

\* C11: calculateStreaks returns for a habit the currentStreak it returns for
\* the same habit as a Daily one, with the same completion map and reference
\* date: the number of consecutive completed calendar days back from the
\* reference date, days outside the selected weekdays breaking it too.
C11_WeeklyCurrentAsDaily ==
    CalledFn("calculateStreaks") =>
        /\ Returned.currentStreak =
               calculateStreaksOfHabit(timeZone, now,
                   [Habit EXCEPT !.frequency = "daily"],
                   Habit.completions, Some(argDate)).currentStreak
        /\ Returned.currentStreak = ConsecutiveBack(Habit.completions, argDate)

\* a Mon/Wed/Fri habit completed on Monday and Wednesday, not on Tuesday,
\* asked about on Wednesday: the current streak is 1
C11_Witness ==
    /\ CalledFn("calculateStreaks")
    /\ Habit.frequency = "weekly"
    /\ "selectedDays" \in DOMAIN Habit
    /\ Habit.selectedDays = {1, 3, 5}
    /\ Habit.completions = {<<2024, 3, 11>>, <<2024, 3, 13>>}
    /\ argDate = DaysFromCivil(2024, 3, 13)
    /\ getDay(argDate) = 3
    /\ Returned.currentStreak = 1

\* the habits with the frequency and the completions of h, with every name,
\* difficulty, creation day and selection of weekdays (or none)
SameScheduleAs(h) ==
    {[name |-> n, frequency |-> h.frequency, selectedDays |-> w,
      difficulty |-> d, createdAt |-> c, completions |-> h.completions,
      currentStreak |-> 0, longestStreak |-> 0] :
        n \in Names, w \in WeekdayChoices, d \in Difficulties,
        c \in CreatedDays}
    \cup
    {[name |-> n, frequency |-> h.frequency,
      difficulty |-> d, createdAt |-> c, completions |-> h.completions,
      currentStreak |-> 0, longestStreak |-> 0] :
        n \in Names, d \in Difficulties, c \in CreatedDays}

\* C12: two habits with the same frequency and the same completions get the
\* same currentStreak and longestStreak for the same reference date, whatever
\* their name, difficulty, creation day and selected weekdays.
C12_StreaksOfFrequencyAndCompletions ==
    CalledFn("calculateStreaks") =>
        \A other \in SameScheduleAs(Habit) :
            calculateStreaksOfHabit(timeZone, now, other, other.completions,
                                    Some(argDate)) = Returned

\* a hard habit on selected weekdays with a streak of two days
C12_Witness ==
    /\ CalledFn("calculateStreaks")
    /\ Habit.difficulty = "hard"
    /\ "selectedDays" \in DOMAIN Habit
    /\ Habit.selectedDays = {1, 3, 5}
    /\ Habit.name = "Read"
    /\ Returned.currentStreak = 2
    /\ Returned.longestStreak >= 2

\* C13 (as stated): getHabitStats returns the number of completion keys as
\* totalCompletions, and as completionRate that number divided by the whole
\* days from the creation day to today, times 100, to one decimal; 0.0 when
\* no whole day has passed.
C13_RateOverDaysSinceCreation ==
    CalledFn("getHabitStats") =>
        LET count == Cardinality(Habit.completions)
            daysSinceCreation == now - Habit.createdAt
            tenths == 10 * Returned.completionRate.whole
                      + Returned.completionRate.tenth
            apart  == tenths * daysSinceCreation - 1000 * count
        IN  /\ Returned.totalCompletions = count
            /\ Returned.completionRate.tenth \in 0..9
            /\ IF daysSinceCreation <= 0
               THEN tenths = 0
               ELSE 2 * apart <= daysSinceCreation /\ -2 * apart <= daysSinceCreation

\* the length of a month of the calendar (month numbered from 0)
IsLeapYear(year) == year % 4 = 0 /\ (year % 100 # 0 \/ year % 400 = 0)
CalendarDaysInMonth(month, year) ==
    IF month + 1 \in {4, 6, 9, 11} THEN 30
    ELSE IF month + 1 = 2 THEN (IF IsLeapYear(year) THEN 29 ELSE 28)
    ELSE 31

\* C14: getMonthlyData returns one entry per day of the month, with day
\* values 1..N in ascending order, each completed 0 or 1, and 1 exactly when
\* the key of that calendar day is in the habit's completions.
C14_MonthlyDataPerDay ==
    CalledFn("getMonthlyData") =>
        /\ Len(Returned) = CalendarDaysInMonth(argMonth, argYear)
        /\ \A i \in 1..Len(Returned) :
              /\ Returned[i].day = i
              /\ Returned[i].completed \in {0, 1}
              /\ Returned[i].completed = 1
                    <=> <<argYear, argMonth + 1, i>> \in Habit.completions

\* February of a leap year with the 29th completed
C14_Witness ==
    /\ CalledFn("getMonthlyData")
    /\ argMonth = 1
    /\ argYear = 2024
    /\ <<2024, 2, 29>> \in Habit.completions
    /\ Len(Returned) = 29
    /\ Returned[29].completed = 1
    /\ Returned[28].completed = 0

\* the completion keys of a habit that fall in a month of a year
CompletedIn(habit, month, year) ==
    {k \in habit.completions : k[1] = year /\ k[2] = month + 1}

\* C15: getYearlyData returns 12 entries in month order, each with
\* completions the number of completed days of that month and completionRate
\* that number over the number of days of the month, times 100.
C15_YearlyDataPerMonth ==
    CalledFn("getYearlyData") =>
        /\ Len(Returned) = 12
        /\ Returned[1].month = "Jan" /\ Returned[2].month = "Feb"
        /\ Returned[3].month = "Mar" /\ Returned[12].month = "Dec"
        /\ \A m \in 1..12 :
              LET count == Cardinality(CompletedIn(Habit, m - 1, argYear))
                  rate  == Returned[m].completionRate
              IN  /\ Returned[m].completions = count
                  /\ rate.den > 0
                  /\ rate.num * CalendarDaysInMonth(m - 1, argYear)
                        = 100 * count * rate.den

\* a year with one completed day in February and three in March
C15_Witness ==
    /\ CalledFn("getYearlyData")
    /\ argYear = 2024
    /\ Returned[2].completions = 1
    /\ Returned[2].completionRate = [num |-> 100, den |-> 29]
    /\ Returned[3].completions = 3
    /\ Returned[1].completions = 0

\* the day of the week of a day, counted from Sunday 2024-03-10
Weekday(date) == (date - DaysFromCivil(2024, 3, 10)) % 7

\* C16: the dashboard's filter keeps a Daily habit on every date and a Weekly
\* habit exactly on the dates whose weekday (0 = Sunday .. 6 = Saturday) is
\* among its selected weekdays, so never when none is selected.
C16_ApplicableOnSelectedWeekdays ==
    (CalledFn("todayHabits") /\ "selectedDays" \in DOMAIN Habit) =>
        /\ ~Returned.threw
        /\ Returned.habits \in {<<>>, <<Habit>>}
        /\ Returned.habits = <<Habit>>
              <=> \/ Habit.frequency = "daily"
                  \/ /\ Habit.frequency = "weekly"
                     /\ Weekday(argDate) \in Habit.selectedDays

\* a Mon/Wed/Fri habit is kept on a Wednesday
C16_Witness ==
    /\ CalledFn("todayHabits")
    /\ Habit.frequency = "weekly"
    /\ "selectedDays" \in DOMAIN Habit
    /\ Habit.selectedDays = {1, 3, 5}
    /\ argDate = DaysFromCivil(2024, 3, 13)
    /\ Returned.habits = <<Habit>>

\* C17: for a Weekly habit without a selectedWeekdays field the filter raises
\* no error and leaves the habit out of the day's list, on every date.
C17_MissingWeekdaysNotApplicable ==
    (/\ CalledFn("todayHabits")
     /\ Habit.frequency = "weekly"
     /\ "selectedDays" \notin DOMAIN Habit) =>
        Returned = [threw |-> FALSE, habits |-> <<>>]

\* the filter has run on a Weekly habit without the field, on a Monday
C17_Witness ==
    /\ CalledFn("todayHabits")
    /\ Habit.frequency = "weekly"
    /\ "selectedDays" \notin DOMAIN Habit
    /\ Weekday(argDate) = 1
    /\ Returned.habits = <<>>

----------------------------------------------------------------------------
(* The component used by several accounts. *)

\* a step is a call of one of the named handlers
Calls(ops) == opCount' = opCount + 1 /\ lastOp'.op \in ops

Commands ==
    {"addHabit", "updateHabit", "deleteHabit", "toggleHabitCompletion",
     "setMood", "setReflection"}

\* C19: a habit, mood or reflection command leaves every user of the users
\* list other than the signed-in one exactly as it was.
C19_OtherUsersUnchanged ==
    [][Calls(Commands) =>
         /\ Len(appData'.users) = Len(appData.users)
         /\ \A i \in 1..Len(appData.users) :
               (currentUser = None \/ appData.users[i].id # Val(currentUser).id)
                   => appData'.users[i] = appData.users[i]
      ]_vars

\* the second user has recorded a mood while the first user has a habit
C19_Witness ==
    /\ Len(appData.users) = 2
    /\ appData.users[1].habits # <<>>
    /\ currentUser # None
    /\ Val(currentUser).id = appData.users[2].id
    /\ lastOp.op = "setMood"
    /\ DOMAIN appData.users[2].moods # {}
    /\ DOMAIN appData.users[1].moods = {}

\* C20: a user of the users list is in the users list after every step, with
\* the id and the email signUp gave it.
C20_UsersStay ==
    [][\A i \in 1..Len(appData.users) :
          /\ i <= Len(appData'.users)
          /\ appData'.users[i].id = appData.users[i].id
          /\ appData'.users[i].email = appData.users[i].email
      ]_vars

\* two users have signed up, both have signed out, and the first has signed
\* in again
C20_Witness ==
    /\ Len(appData.users) = 2
    /\ lastOp.op = "signIn"
    /\ opCount = 5
    /\ currentUser # None
    /\ Val(currentUser).id = appData.users[1].id

----------------------------------------------------------------------------
(* The statistics of the stored habits. *)

\* C24: for every stored habit, the currentStreak getHabitStats reports is
\* the number of consecutive completed days ending today.
C24_ReportedStreakEndsToday ==
    \A h \in StoredHabits :
        getHabitStats(timeZone, now, h).currentStreak
            = ConsecutiveBack(h.completions, now)

----------------------------------------------------------------------------
(* Signing in. *)

SignInStep == opCount' = opCount + 1 /\ lastOp'.op = "signIn"

Registered(email, password) ==
    \E u \in StoredUsers : u.email = email /\ u.password = hashPassword(password)

\* C25: a signIn call returns true and makes a user current only if a
\* registered user has the email and the hash of the password, and that user is
\* then the current one; otherwise it returns false and changes nothing.
C25_SignInOnlyOnMatch ==
    [][SignInStep =>
          IF Registered(lastOp'.email, lastOp'.password)
          THEN /\ lastOp'.returned
               /\ currentUser' # None
               /\ Val(currentUser') \in StoredUsers
               /\ Val(currentUser').email = lastOp'.email
               /\ Val(currentUser').password = hashPassword(lastOp'.password)
               /\ appData'.currentUser = Some(Val(currentUser').id)
          ELSE /\ ~lastOp'.returned
               /\ UNCHANGED <<appData, currentUser, theme, selectedDate,
                              localStorage, selectedHabitForAnalytics>>
      ]_vars

\* a sign-in with the email of a registered user and a wrong password has
\* been refused
C25_Witness ==
    /\ lastOp.op = "signIn"
    /\ ~lastOp.returned
    /\ \E u \in StoredUsers : u.email = lastOp.email
    /\ currentUser = None

\* C26: after signUp and then signOut, a signIn with the email and the
\* password of that signUp makes the user that signUp created the current one.
C26_SignInAfterSignUp ==
    (/\ lastOp.op = "signIn"
     /\ lastOp.signedOut # None
     /\ Val(lastOp.signedOut).email = lastOp.email
     /\ Val(lastOp.signedOut).password = lastOp.password)
        => /\ currentUser # None
           /\ Val(currentUser).id = Val(lastOp.signedOut).userId

----------------------------------------------------------------------------
(* Habits over several days. *)

\* a rate "whole.tenth" is between 0 and 100
RateInRange(rate) ==
    /\ rate.whole >= 0
    /\ rate.tenth >= 0
    /\ rate.whole < 100 \/ (rate.whole = 100 /\ rate.tenth = 0)

\* C29: for every stored habit, the completionRate getHabitStats reports is
\* between 0 and 100.
C29_CompletionRateInRange ==
    \A h \in StoredHabits :
        RateInRange(getHabitStats(timeZone, now, h).completionRate)

\* no two of the weekdays are next to each other, Saturday and Sunday included
NoAdjacentWeekdays(days) ==
    \A d \in days : (d + 1) % 7 \notin days

\* C30: a weekly habit whose selected weekdays are not adjacent and whose form
\* was never saved again has a stored currentStreak of at most 1.
C30_WeeklyStreakAtMostOne ==
    \A h \in StoredHabits :
        (/\ h.frequency = "weekly"
         /\ NoAdjacentWeekdays(h.selectedDays)
         /\ h.id \notin edited)
            => h.currentStreak <= 1

\* a habit of Sundays and Tuesdays, completed on Sunday 2024-03-10 and on
\* Tuesday 2024-03-12, the last toggle having set its streak
C30_Witness ==
    /\ lastOp.op = "toggleHabitCompletion"
    /\ \E h \in StoredHabits :
          /\ h.frequency = "weekly"
          /\ h.selectedDays = {0, 2}
          /\ h.id \notin edited
          /\ h.completions = {<<2024, 3, 10>>, <<2024, 3, 12>>}
          /\ h.currentStreak = 1

----------------------------------------------------------------------------
(* The session in the browser. *)

ReloadStep == opCount' = opCount + 1 /\ lastOp'.op = "reload"

\* C21: a reload of the page brings back the users with their habits,
\* completions, streaks, moods and reflections, the signed-in user and the
\* theme that were there just before it.
C21_ReloadRestores ==
    [][ReloadStep =>
          /\ appData' = appData
          /\ currentUser' = currentUser
          /\ theme' = theme
      ]_vars

EditStep == opCount' = opCount + 1 /\ lastOp'.op = "updateHabit"

EditableFields == {"name", "description", "frequency", "selectedDays", "difficulty"}

HabitIds(user) == [i \in 1..Len(user.habits) |-> user.habits[i].id]

\* C22: a save of the edit form leaves every habit its id and changes, of the
\* edited habit only, the name, the description, the frequency, the selected
\* weekdays and the difficulty; no step at all changes the id of a habit that
\* stays in its list.
C22_EditKeepsTheRest ==
    [][/\ EditStep =>
            /\ Len(appData'.users) = Len(appData.users)
            /\ \A k \in 1..Len(appData.users) :
                  LET before == appData.users[k]
                      after  == appData'.users[k]
                  IN  /\ [after EXCEPT !.habits = <<>>] = [before EXCEPT !.habits = <<>>]
                      /\ Len(after.habits) = Len(before.habits)
                      /\ \A i \in 1..Len(before.habits) :
                            /\ DOMAIN after.habits[i] = DOMAIN before.habits[i]
                            /\ \A f \in DOMAIN before.habits[i] \ EditableFields :
                                  after.habits[i][f] = before.habits[i][f]
                            /\ before.habits[i].id # lastOp'.habitId
                                  => after.habits[i] = before.habits[i]
       /\ \A k \in 1..Len(appData.users) :
             k <= Len(appData'.users) =>
                 LET before == HabitIds(appData.users[k])
                     after  == HabitIds(appData'.users[k])
                 IN  \/ after = before
                     \/ \E id \in 1..MaxIds : after = Append(before, id)
                     \/ \E id \in 1..MaxIds :
                           after = SelectSeq(before, LAMBDA x : x # id)
      ]_vars

\* the edit form was saved on a habit with a completion, and its name and its
\* frequency changed
C22_Witness ==
    /\ lastOp.op = "updateHabit"
    /\ currentUser # None
    /\ \E h \in Range(Val(currentUser).habits) :
          /\ h.id \in edited
          /\ h.completions # {}
          /\ h.currentStreak = 1
          /\ h.name = "Read"
          /\ h.frequency = "weekly"

\* C23: whatever happens between the submit of a sign-up and its deferred
\* run, afterwards the user that signed up is in the users list, and the theme
\* in appData and in the stored text is the one last toggled to.
C23_NoUpdateLost ==
    /\ lastOp.op = "signUp" =>
           \E u \in Range(appData.users) : u.id = lastOp.userId
    /\ appData.theme = theme
    /\ localStorage # None /\ JSONparse(Val(localStorage)).theme = theme

\* C27: the habit the analytics view shows is one of the habits in the
\* current user's list.
C27_AnalyticsHabitIsStored ==
    (currentUser # None /\ habitToAnalyzeOf(Val(currentUser)) # None)
        => Val(habitToAnalyzeOf(Val(currentUser))) \in Range(Val(currentUser).habits)

\* C28: currentUser is null exactly when appData.currentUser is, and otherwise
\* it is the entry of appData.users with that id.
C28_CurrentUserIsTheEntry ==
    /\ currentUser = None <=> appData.currentUser = None
    /\ currentUser # None =>
          /\ \E i \in 1..Len(appData.users) : appData.users[i] = Val(currentUser)
          /\ \A i \in 1..Len(appData.users) :
                appData.users[i].id = Val(appData.currentUser)
                    => appData.users[i] = Val(currentUser)
          /\ Val(currentUser).id = Val(appData.currentUser)

\* the signed-in user has just completed a habit: updateCurrentUser wrote the
\* new record to both places
C28_Witness ==
    /\ lastOp.op = "toggleHabitCompletion"
    /\ currentUser # None
    /\ \E h \in Range(Val(currentUser).habits) : h.completions # {}

====
